---- MODULE Spec2Model ----
(***************************************************************************)
(* The paginated message iterators of telethon/_client/messages.py:        *)
(* _MessagesIter (message range iterator) and _IDsIter (ID lookup          *)
(* iterator), driven by the generic chunk-fetching protocol of RequestIter *)
(* and answered by a transport that is either arbitrary or honest.         *)
(***************************************************************************)
EXTENDS Integers, Sequences, FiniteSets, TLC

\* ------------------------------------------------------------------------
\* Program constants
\* ------------------------------------------------------------------------
_MAX_CHUNK_SIZE == 100

\* Python None, where the other values of the field are integers; no
\* identifier, limit, count or date of the model has this value
None == -999999

\* float('inf'): larger than every identifier and every limit of the model
Inf == 1000000

\* ------------------------------------------------------------------------
\* Bounds of the model
\* ------------------------------------------------------------------------
\* short identifier lists hold at most MaxIds identifiers
MaxIds == 3
\* long identifier lists hold _MAX_CHUNK_SIZE + (0..MaxOver) identifiers
MaxOver == 1
\* an arbitrary transport returns messages with the identifiers 1..MaxMsgId
MaxMsgId == 3
\* an arbitrary transport returns at most MaxReply records per request
MaxReply == 2
\* the finite limits of the range traversals are 0..MaxLimit
MaxLimit == 2
\* an honest transport serves a history of at most MaxHistory messages
MaxHistory == 201

\* ------------------------------------------------------------------------
\* Helpers
\* ------------------------------------------------------------------------
Max(a, b) == IF a >= b THEN a ELSE b
Min(a, b) == IF a <= b THEN a ELSE b

\* a - b in Python floats/ints, where a may be float('inf')
Minus(a, b) == IF a = Inf THEN Inf ELSE a - b

\* list(reversed(s))
Reversed(s) == [i \in 1..Len(s) |-> s[Len(s) + 1 - i]]

\* s[lo:hi] of Python (0-based, hi exclusive, clamped to the list)
Slice(s, lo, hi) == SubSeq(s, lo + 1, Min(hi, Len(s)))

\* the sequences over S of length at most n
RECURSIVE Lists(_, _)
Lists(S, n) ==
    IF n = 0 THEN {<<>>}
    ELSE LET shorter == Lists(S, n - 1)
         IN  shorter \cup {Append(s, x) : s \in shorter, x \in S}

NoRepeat(s) == \A i, j \in 1..Len(s) : i # j => s[i] # s[j]

\* 1, 2, ..., n
Iota(n) == [i \in 1..n |-> i]

VARIABLES
    kind,       \* which iterator the factory returned: "msg" or "ids"
    args,       \* the keyword arguments the factory passed on
    server,     \* how the transport answers: "any" or "honest"
    pc,         \* "new" before _init ran, then "ready", or "error"
    err,        \* the error that reached the caller, "" when none
    signalled,  \* some next() has signalled Exhausted
    left, buffer, total, done,                   \* RequestIter
    entity, from_id, request, add_offset,
    max_id, min_id, last_id,                     \* _MessagesIter
    _ids, _offset, _ty,                          \* _IDsIter
    r,          \* the transport's answer to the latest request
    sent,       \* every request handed to the transport, in order
    produced    \* every item next() returned, in order

vars == <<kind, args, server, pc, err, signalled, left, buffer, total, done,
          entity, from_id, request, add_offset, max_id, min_id, last_id,
          _ids, _offset, _ty, r, sent, produced>>

msgVars == <<entity, from_id, request, add_offset, max_id, min_id, last_id>>
idsVars == <<_ids, _offset, _ty>>

\* the absent marker of a produced slot (None in the buffer)
Absent == [id |-> None]

NoRequest == [tag |-> "None"]
NoReply == [kind |-> "None"]

\* ------------------------------------------------------------------------
\* RequestIter: the generic iteration protocol
\* ------------------------------------------------------------------------
\* the remaining budget a new iterator starts with
InitialLeft(limit) == IF limit = None THEN Inf ELSE Max(limit, 0)

\* next() finds an item in the buffer: pop it and return it
NextPop ==
    /\ pc = "ready"
    /\ buffer # <<>>
    /\ produced' = Append(produced, Head(buffer))
    /\ buffer' = Tail(buffer)
    /\ UNCHANGED <<kind, args, server, pc, err, signalled, left, total, done,
                   msgVars, idsVars, r, sent>>

\* next() with an empty buffer and no budget left, or a terminal iterator
NextExhausted ==
    /\ pc = "ready"
    /\ buffer = <<>>
    /\ (left <= 0 \/ done)
    /\ signalled' = TRUE
    /\ UNCHANGED <<kind, args, server, pc, err, left, buffer, total, done,
                   msgVars, idsVars, r, sent, produced>>

\* next() may fetch a chunk
CanLoad == pc = "ready" /\ buffer = <<>> /\ left > 0 /\ ~done

\* the tail of a next() that fetched a chunk: `items` were appended and the
\* chunk was reported the last one or not; the first item, if any, is returned
AfterLoad(items, last) ==
    /\ left' = Minus(left, Len(items))
    /\ done' = last
    /\ IF items = <<>>
       THEN /\ buffer' = <<>>
            /\ signalled' = TRUE
            /\ produced' = produced
       ELSE /\ buffer' = Tail(items)
            /\ signalled' = signalled
            /\ produced' = Append(produced, Head(items))

\* the state of a new iterator, whatever its arguments
Constructed ==
    /\ pc = "new" /\ err = "" /\ signalled = FALSE
    /\ buffer = <<>> /\ total = None /\ done = FALSE
    /\ entity = "None" /\ from_id = None /\ request = NoRequest
    /\ add_offset = 0 /\ max_id = 0 /\ min_id = 0 /\ last_id = 0
    /\ _ids = <<>> /\ _offset = 0 /\ _ty = "None"
    /\ r = NoReply /\ sent = <<>> /\ produced = <<>>

\* ------------------------------------------------------------------------
\* _IDsIter
\* ------------------------------------------------------------------------
\* _IDsIter._init
IDsInit ==
    /\ kind = "ids"
    /\ pc = "new"
    /\ total' = Len(args.ids)
    /\ _ids' = IF args.reverse THEN Reversed(args.ids) ELSE args.ids
    /\ _offset' = 0
    /\ _ty' = args.entity
    /\ pc' = "ready"
    /\ UNCHANGED <<kind, args, server, err, signalled, left, buffer, done,
                   msgVars, r, sent, produced>>

\* ids = self._ids[self._offset:self._offset + _MAX_CHUNK_SIZE]
IdsBatch(all, offset) == Slice(all, offset, offset + _MAX_CHUNK_SIZE)

\* the request of one batch: channel-scoped for a channel, global otherwise
IdsRequest(ty, ids) ==
    [tag |-> IF ty = "CHANNEL" THEN "channels.GetMessages" ELSE "messages.GetMessages",
     ids |-> ids]

\* the except clause around the lookup: which rejected lookups are swallowed
CatchesIdsEmpty_NoExcept(ty) == FALSE
CatchesIdsEmpty(ty) == ty = "CHANNEL"

\* from_id: the peer every message is validated against, None for no validation
IdsFromId_Never(ty) == "None"

IdsFromId(ty) == IF ty = "CHANNEL" \/ ty = "None" THEN "None" ELSE "own"

\* one record of the answer becomes one slot
IdsSlot(ty, message) ==
    IF message.empty \/ (IdsFromId(ty) # "None" /\ message.peer # IdsFromId(ty))
    THEN Absent
    ELSE message

\* the slots a batch appends to the buffer, given the transport's answer
IdsSlots(ty, ids, reply) ==
    IF reply.kind = "MessagesNotModified"
    THEN [i \in 1..Len(ids) |-> Absent]
    ELSE [i \in 1..Len(reply.messages) |-> IdsSlot(ty, reply.messages[i])]

\* what the transport may do with each requested identifier
Fates == {"ok", "omit", "empty", "foreign"}

\* the positions of a batch whose fate varies in the model; every other
\* identifier is answered with its message
Vary(ids) == {1, 2, Len(ids)} \cap (1..Len(ids))

IdsAnswer(ids, fate, i) ==
    LET sentBack == SelectSeq([j \in 1..Max(0, Len(ids) - i + 1) |-> j + i - 1],
                             LAMBDA j : fate[j] # "omit")
    IN  [k \in 1..Len(sentBack) |->
           [id |-> ids[sentBack[k]],
            empty |-> fate[sentBack[k]] = "empty",
            peer |-> IF fate[sentBack[k]] = "foreign" THEN "other" ELSE "own"]]

\* the transport fails a request with a service error
Failure == [kind |-> "RPCError"]

\* the answers of the transport to a lookup of `ids`: an error, an answer
\* that omits every identifier, or one fate per varied identifier
IdsReplies(ids) ==
    {[kind |-> "MessageIdsEmptyError"], Failure,
     [kind |-> "Messages", messages |-> <<>>]}
    \cup {[kind |-> "Messages",
           messages |-> IdsAnswer(ids,
               [i \in 1..Len(ids) |-> IF i \in Vary(ids) THEN g[i] ELSE "ok"], 1)] :
            g \in [Vary(ids) -> Fates]}

\* the errors of a lookup that _IDsIter._load_next_chunk lets through: every
\* error but the MessageIdsEmptyError of a channel
IdsRaises_ExceptAll(ty, reply) ==
    reply.kind # "Messages" /\ ~CatchesIdsEmpty(ty)

IdsRaises(ty, reply) ==
    reply.kind # "Messages"
    /\ ~(reply.kind = "MessageIdsEmptyError" /\ CatchesIdsEmpty(ty))

\* _IDsIter._load_next_chunk with no identifier left: StopAsyncIteration
IDsLoadNone ==
    /\ kind = "ids"
    /\ CanLoad
    /\ IdsBatch(_ids, _offset) = <<>>
    /\ signalled' = TRUE
    /\ UNCHANGED <<kind, args, server, pc, err, left, buffer, total, done,
                   msgVars, idsVars, r, sent, produced>>

\* _IDsIter._load_next_chunk, one batch
IDsLoad ==
    /\ kind = "ids"
    /\ CanLoad
    /\ LET ids == IdsBatch(_ids, _offset)
       IN  /\ ids # <<>>
           /\ _offset' = _offset + _MAX_CHUNK_SIZE
           /\ sent' = Append(sent, IdsRequest(_ty, ids))
           /\ \E reply \in IdsReplies(ids) :
                /\ r' = reply
                /\ IF IdsRaises(_ty, reply)
                   THEN /\ pc' = "error"
                        /\ err' = reply.kind
                        /\ UNCHANGED <<left, buffer, done, signalled, produced>>
                   ELSE /\ AfterLoad(
                             IdsSlots(_ty, ids,
                                 IF reply.kind # "Messages"
                                 THEN [kind |-> "MessagesNotModified", count |-> Len(ids)]
                                 ELSE reply),
                             FALSE)
                        /\ UNCHANGED <<pc, err>>
    /\ UNCHANGED <<kind, args, server, total, msgVars, _ids, _ty>>

\* get_messages(ids=...): the identifier lists of the model
IdLists ==
    {s \in Lists(10..(9 + MaxIds), MaxIds) : NoRepeat(s)}
    \cup {Iota(_MAX_CHUNK_SIZE + k) : k \in 0..MaxOver}

EntityTypes == {"None", "USER", "CHAT", "CHANNEL"}

InitIds ==
    /\ kind = "ids"
    /\ server = "any"
    /\ \E ids \in IdLists, reverse \in BOOLEAN, e \in EntityTypes :
         /\ args = [ids |-> ids, reverse |-> reverse, entity |-> e, limit |-> Len(ids)]
         /\ left = InitialLeft(Len(ids))
    /\ Constructed

NextIds == IDsInit \/ IDsLoad \/ IDsLoadNone \/ NextPop \/ NextExhausted

SpecIds == InitIds /\ [][NextIds]_vars

\* ------------------------------------------------------------------------
\* _MessagesIter._init
\* ------------------------------------------------------------------------
\* get_messages: the defaults of the keyword arguments
DefaultArgs ==
    [entity |-> "None", limit |-> None, offset_date |-> None, offset_id |-> 0,
     max_id |-> 0, min_id |-> 0, add_offset |-> 0, search |-> "None",
     filter |-> "None", from_user |-> None, reverse |-> FALSE,
     reply_to |-> None, scheduled |-> FALSE]

\* helpers._entity_type: the coarse category of a resolved peer
EntityType(e) == e

\* 'Cannot reverse global search'
RejectsReverse(a) == a.entity = "None" /\ a.reverse

\* offset_id = max(offset_id, min_id) in reverse, max(offset_id, max_id) forward
AnchorId(a) ==
    IF a.reverse THEN Max(a.offset_id, a.min_id) ELSE Max(a.offset_id, a.max_id)

\* the window between the anchor and the opposite bound holds no identifier
NothingToFetch_Strict(a) ==
    IF a.reverse
    THEN AnchorId(a) # 0 /\ a.max_id # 0 /\ a.max_id - AnchorId(a) < 1
    ELSE AnchorId(a) # 0 /\ a.min_id # 0 /\ AnchorId(a) - a.min_id < 1
NothingToFetch(a) ==
    IF a.reverse
    THEN AnchorId(a) # 0 /\ a.max_id # 0 /\ a.max_id - AnchorId(a) <= 1
    ELSE AnchorId(a) # 0 /\ a.min_id # 0 /\ AnchorId(a) - a.min_id <= 1

\* max_id = float('inf') when reverse and no max_id was given
InitMaxId(a) == IF a.reverse /\ a.max_id = 0 THEN Inf ELSE a.max_id

\* the offset identifier of the first request
InitOffsetId(a) ==
    IF a.reverse
    THEN IF AnchorId(a) # 0 THEN AnchorId(a) + 1
         ELSE IF a.offset_date = None THEN 1 ELSE 0
    ELSE AnchorId(a)

\* self.entity: the resolved peer, InputPeerEmpty for a global search by sender
InitEntity(a) ==
    IF a.entity = "None" /\ a.from_user # None THEN "Empty" ELSE a.entity

\* filter = InputMessagesFilterEmpty() when none was given
FilterOf(a) == IF a.filter = "None" THEN "Empty" ELSE a.filter

\* q = search or ''
Q(a) == IF a.search = "None" THEN "" ELSE a.search

\* the request variant chosen by the if/elif chain
Variant_RepliesFirst(a) ==
    IF InitEntity(a) = "None" THEN "SearchGlobal"
    ELSE IF a.reply_to # None THEN "GetReplies"
    ELSE IF a.scheduled THEN "GetScheduledHistory"
    ELSE IF a.search # "None" \/ FilterOf(a) # "Empty" \/ a.from_user # None
         THEN "Search"
    ELSE "GetHistory"
Variant(a) ==
    IF InitEntity(a) = "None" THEN "SearchGlobal"
    ELSE IF a.scheduled THEN "GetScheduledHistory"
    ELSE IF a.reply_to # None THEN "GetReplies"
    ELSE IF a.search # "None" \/ FilterOf(a) # "Empty" \/ a.from_user # None
         THEN "Search"
    ELSE "GetHistory"

\* Search to a peer that is no user filters by sender on the server
SenderPushedToServer(a) ==
    Variant(a) = "Search" /\ EntityType(InitEntity(a)) # "USER"

\* self.from_id: the sender checked locally, None for no check
InitFromId(a) ==
    IF a.from_user = None \/ SenderPushedToServer(a) THEN None ELSE a.from_user

\* a request with none of its attributes set
BlankRequest ==
    [tag |-> "None", peer |-> "None", q |-> "None", filter |-> "None",
     max_date |-> None, offset_date |-> None, offset_id |-> None,
     add_offset |-> None, limit |-> None, from_id |-> None, msg_id |-> None,
     offset_peer |-> "None", offset_rate |-> None, min_id |-> None,
     max_id |-> None]

\* self.request as first built
BuildRequest(a) ==
    LET tag == Variant(a)
    IN  CASE tag = "SearchGlobal" ->
               [BlankRequest EXCEPT !.tag = tag, !.q = Q(a), !.filter = FilterOf(a),
                    !.max_date = a.offset_date, !.offset_rate = 0,
                    !.offset_peer = "Empty", !.offset_id = InitOffsetId(a),
                    !.limit = 1]
          [] tag = "GetScheduledHistory" ->
               [BlankRequest EXCEPT !.tag = tag, !.peer = a.entity]
          [] tag = "GetReplies" ->
               [BlankRequest EXCEPT !.tag = tag, !.peer = InitEntity(a),
                    !.msg_id = a.reply_to, !.offset_id = InitOffsetId(a),
                    !.offset_date = a.offset_date, !.add_offset = a.add_offset,
                    !.limit = 1, !.max_id = 0, !.min_id = 0]
          [] tag = "Search" ->
               [BlankRequest EXCEPT !.tag = tag, !.peer = InitEntity(a),
                    !.q = Q(a), !.filter = FilterOf(a),
                    !.max_date = a.offset_date, !.offset_id = InitOffsetId(a),
                    !.add_offset = a.add_offset, !.limit = 0,
                    !.max_id = 0, !.min_id = 0,
                    !.from_id = IF SenderPushedToServer(a) THEN a.from_user ELSE None]
          [] OTHER ->
               [BlankRequest EXCEPT !.tag = tag, !.peer = InitEntity(a),
                    !.limit = 1, !.offset_date = a.offset_date,
                    !.offset_id = InitOffsetId(a), !.add_offset = a.add_offset,
                    !.max_id = 0, !.min_id = 0]

\* in reverse the request is built to skip a chunk less:
\* self.request.add_offset -= _MAX_CHUNK_SIZE
Biased_Never(req, reverse) == req

Biased(req, reverse) ==
    IF reverse THEN [req EXCEPT !.add_offset = @ - _MAX_CHUNK_SIZE] ELSE req

\* the request classes that have an add_offset attribute
HasAddOffset(tag) == tag \in {"GetReplies", "Search", "GetHistory"}

\* the filter-with-date workaround applies (issue #1124)
WantsDateProbe_AnyOffset(a) ==
    /\ Variant(a) = "Search"
    /\ FilterOf(a) # "Empty"
    /\ a.offset_date # None
    /\ a.search \in {"None", ""}

WantsDateProbe(a) ==
    /\ Variant(a) = "Search"
    /\ FilterOf(a) # "Empty"
    /\ a.offset_date # None
    /\ a.search \in {"None", ""}
    /\ InitOffsetId(a) = 0

\* the arguments of the inner iter_messages(self.entity, 1, offset_date=...)
ProbeArgs(a) ==
    [DefaultArgs EXCEPT !.entity = InitEntity(a), !.limit = 1,
                        !.offset_date = a.offset_date]

\* getattr(result, 'count', len(result.messages))
CountOf_Len(reply) == Len(reply.messages)
CountOf(reply) == IF reply.count # None THEN reply.count ELSE Len(reply.messages)

\* ------------------------------------------------------------------------
\* _MessagesIter._load_next_chunk
\* ------------------------------------------------------------------------
\* _message_in_range, for an iterator whose fields are c and whose last
\* accepted identifier is `last`
MessageInRange_NoLastId(c, message, last) ==
    IF c.entity # "None"
    THEN IF c.reverse
         THEN ~(message.id >= c.max_id)
         ELSE ~(message.id <= c.min_id)
    ELSE TRUE
MessageInRange(c, message, last) ==
    IF c.entity # "None"
    THEN IF c.reverse
         THEN ~(message.id <= last \/ message.id >= c.max_id)
         ELSE ~(message.id >= last \/ message.id <= c.min_id)
    ELSE TRUE

\* the loop over the messages of a chunk: placeholders and messages of another
\* sender are passed over; the others are appended one after the other, each
\* checked against the identifier accepted before it, up to the first that is
\* out of range, where the loop returns. Yields the appended items, the last
\* accepted identifier, and whether the loop returned early
Scan_KeepPlaceholders(c, messages, last) ==
    LET Considered(message) ==
            ~(c.from_id # None /\ message.sender # c.from_id)
        kept == SelectSeq(messages, Considered)
        Before(j) == IF j = 1 THEN last ELSE kept[j - 1].id
        out == {j \in 1..Len(kept) : ~MessageInRange(c, kept[j], Before(j))}
        n == IF out = {} THEN Len(kept)
             ELSE (CHOOSE j \in out : \A k \in out : j <= k) - 1
    IN  [items |-> SubSeq(kept, 1, n),
         last_id |-> IF n = 0 THEN last ELSE kept[n].id,
         crossed |-> out # {}]

Scan(c, messages, last) ==
    LET Considered(message) ==
            ~(message.empty \/ (c.from_id # None /\ message.sender # c.from_id))
        kept == SelectSeq(messages, Considered)
        Before(j) == IF j = 1 THEN last ELSE kept[j - 1].id
        out == {j \in 1..Len(kept) : ~MessageInRange(c, kept[j], Before(j))}
        n == IF out = {} THEN Len(kept)
             ELSE (CHOOSE j \in out : \A k \in out : j <= k) - 1
    IN  [items |-> SubSeq(kept, 1, n),
         last_id |-> IF n = 0 THEN last ELSE kept[n].id,
         crossed |-> out # {}]

\* self.request.limit = min(self.left, _MAX_CHUNK_SIZE)
ChunkLimit(budget) == Min(budget, _MAX_CHUNK_SIZE)

\* the request of the next chunk: its limit, and in reverse its add_offset
ChunkRequest_AlwaysSkip(req, reverse, budget, offset) ==
    LET lim == ChunkLimit(budget)
    IN  IF lim # _MAX_CHUNK_SIZE
        THEN [req EXCEPT !.limit = lim, !.add_offset = offset - lim]
        ELSE [req EXCEPT !.limit = lim]

ChunkRequest(req, reverse, budget, offset) ==
    LET lim == ChunkLimit(budget)
    IN  IF reverse /\ lim # _MAX_CHUNK_SIZE
        THEN [req EXCEPT !.limit = lim, !.add_offset = offset - lim]
        ELSE [req EXCEPT !.limit = lim]

\* _update_offset
UpdateOffset_NoSkip(req, reverse, last_message, reply) ==
    LET a1 == [req EXCEPT !.offset_id = last_message.id]
        a2 == IF req.tag = "Search"
              THEN [a1 EXCEPT !.max_date = None]
              ELSE [a1 EXCEPT !.offset_date = last_message.date]
    IN  IF req.tag = "SearchGlobal"
        THEN [a2 EXCEPT !.offset_peer = last_message.chat,
                        !.offset_rate = reply.next_rate]
        ELSE a2
UpdateOffset(req, reverse, last_message, reply) ==
    LET a1 == [req EXCEPT !.offset_id =
                    IF reverse THEN last_message.id + 1 ELSE last_message.id]
        a2 == IF req.tag = "Search"
              THEN [a1 EXCEPT !.max_date = None]
              ELSE [a1 EXCEPT !.offset_date = last_message.date]
    IN  IF req.tag = "SearchGlobal"
        THEN [a2 EXCEPT !.offset_peer = last_message.chat,
                        !.offset_rate = reply.next_rate]
        ELSE a2

\* the fields of the iterator the loop over a chunk reads
Self == [entity |-> entity, reverse |-> args.reverse, min_id |-> min_id,
         max_id |-> max_id, from_id |-> from_id]

\* the outcome of one chunk: the appended items, the last accepted identifier,
\* the request for the chunk after it, and whether this chunk is the last
Chunk_NeverGivesUp(c, req, last, reply) ==
    LET messages == IF c.reverse THEN Reversed(reply.messages) ELSE reply.messages
        scan == Scan(c, messages, last)
    IN  [items |-> scan.items,
         last_id |-> scan.last_id,
         last |-> \/ scan.crossed
                  \/ Len(reply.messages) < req.limit,
         request |-> IF ~scan.crossed /\ ~(Len(reply.messages) < req.limit)
                        /\ scan.items # <<>>
                     THEN UpdateOffset(req, c.reverse,
                                       scan.items[Len(scan.items)], reply)
                     ELSE req]

Chunk_Unreversed(c, req, last, reply) ==
    LET scan == Scan(c, reply.messages, last)
    IN  [items |-> scan.items,
         last_id |-> scan.last_id,
         last |-> \/ scan.crossed
                  \/ Len(reply.messages) < req.limit
                  \/ scan.items = <<>>,
         request |-> IF ~scan.crossed /\ ~(Len(reply.messages) < req.limit)
                        /\ scan.items # <<>>
                     THEN UpdateOffset(req, c.reverse,
                                       scan.items[Len(scan.items)], reply)
                     ELSE req]

Chunk(c, req, last, reply) ==
    LET messages == IF c.reverse THEN Reversed(reply.messages) ELSE reply.messages
        scan == Scan(c, messages, last)
    IN  [items |-> scan.items,
         last_id |-> scan.last_id,
         last |-> \/ scan.crossed
                  \/ Len(reply.messages) < req.limit
                  \/ scan.items = <<>>,
         request |-> IF ~scan.crossed /\ ~(Len(reply.messages) < req.limit)
                        /\ scan.items # <<>>
                     THEN UpdateOffset(req, c.reverse,
                                       scan.items[Len(scan.items)], reply)
                     ELSE req]

\* ------------------------------------------------------------------------
\* The transport
\* ------------------------------------------------------------------------
\* a message record; its date is its identifier
Message(id, sender) ==
    [id |-> id, empty |-> FALSE, sender |-> sender, date |-> id, chat |-> "Empty"]

\* a MessageEmpty record
Placeholder(id) ==
    [id |-> id, empty |-> TRUE, sender |-> None, date |-> None, chat |-> "Empty"]

Reply(messages, count) ==
    [kind |-> "Messages", messages |-> messages, count |-> count, next_rate |-> 0]

\* an arbitrary transport: any short list of records, with no count, or a
\* service error
AnyRecords == {Message(i, 1) : i \in 1..MaxMsgId} \cup {Placeholder(0)}
AnyReplies == {Reply(m, None) : m \in Lists(AnyRecords, MaxReply)} \cup {Failure}

\* a transport that mixes messages 1 and 2 of sender 1 with a message of
\* sender 2 and with placeholders of identifiers below and above them
MixedRecords ==
    {Message(1, 1), Message(2, 1), Message(1, 2), Placeholder(0), Placeholder(3)}
MixedReplies == {Reply(m, None) : m \in Lists(MixedRecords, MaxReply)}

\* a transport that answers with at most two messages, with or without a count
TerseReplies ==
    {Reply(m, c) : m \in {<<>>, <<Message(101, 1)>>,
                           <<Message(102, 1), Message(101, 1)>>},
                   c \in {None, 7}}

\* an honest transport serving the history 1..n, newest first: it skips the
\* messages from offset_id on (none when offset_id is 0), then add_offset more
\* (a negative add_offset moves the window towards the newer messages), and
\* returns the `limit` messages that follow, as far as they exist; it states
\* the size of the history as the count, or states no count. The newest
\* `others` messages of the history are of sender 2, the rest of sender 1
SenderOf(id, n, others) == IF id > n - others THEN 2 ELSE 1

HonestReply(req, n, counted, others) ==
    LET off == IF req.offset_id = None THEN 0 ELSE req.offset_id
        add == IF req.add_offset = None THEN 0 ELSE req.add_offset
        skipped == IF off = 0 THEN 0 ELSE n - Min(off - 1, n)
        start == skipped + add
        lo == Max(start, 0)
        hi == Min(start + req.limit, n)
    IN  Reply([k \in 1..Max(hi - lo, 0) |->
                 Message(n - lo + 1 - k, SenderOf(n - lo + 1 - k, n, others))],
              IF counted THEN n ELSE None)

Replies(req) ==
    CASE server = "any" -> AnyReplies
      [] server = "mixed" -> MixedReplies
      [] server = "terse" -> TerseReplies
      [] OTHER -> {HonestReply(req, args.history, args.counted, args.others)}

\* ------------------------------------------------------------------------
\* _MessagesIter: the actions

\* `await self.client(request)` raises the error of the transport; neither
\* _init nor _load_next_chunk catches it
Raises(reply) == reply.kind \notin {"Messages", "None"}

\* the request of the inner one-item iteration of the workaround
ProbeRequest(a) == ChunkRequest(BuildRequest(ProbeArgs(a)), FALSE, 1, 0)

\* self.request.offset_id = m.id + 1 for every m the inner iteration yields
WithProbedOffset(a, req, reply) ==
    LET inner == [entity |-> InitEntity(a), reverse |-> FALSE, min_id |-> 0,
                  max_id |-> 0, from_id |-> None]
        items == Chunk(inner, ProbeRequest(a), Inf, reply).items
    IN  IF items = <<>> THEN req
        ELSE [req EXCEPT !.offset_id = items[Len(items)].id + 1]

\* _MessagesIter._init raises ValueError
MsgInitRejected ==
    /\ kind = "msg" /\ pc = "new"
    /\ RejectsReverse(args)
    /\ pc' = "error"
    /\ err' = "ValueError"
    /\ UNCHANGED <<kind, args, server, signalled, left, buffer, total, done,
                   msgVars, idsVars, r, sent, produced>>

\* _MessagesIter._init raises StopAsyncIteration: nothing to fetch
MsgInitEmpty ==
    /\ kind = "msg" /\ pc = "new"
    /\ ~RejectsReverse(args)
    /\ NothingToFetch(args)
    /\ pc' = "ready"
    /\ done' = TRUE
    /\ signalled' = TRUE
    /\ entity' = args.entity
    /\ UNCHANGED <<kind, args, server, err, left, buffer, total,
                   from_id, request, add_offset, max_id, min_id, last_id,
                   idsVars, r, sent, produced>>

\* _MessagesIter._init from the choice of the request on
MsgInit ==
    /\ kind = "msg" /\ pc = "new"
    /\ ~RejectsReverse(args)
    /\ ~NothingToFetch(args)
    /\ entity' = InitEntity(args)
    /\ from_id' = InitFromId(args)
    /\ \E probe \in IF WantsDateProbe(args) THEN Replies(ProbeRequest(args))
                    ELSE {NoReply} :
        LET built == BuildRequest(args)
            req == IF WantsDateProbe(args)
                   THEN WithProbedOffset(args, built, probe) ELSE built
            asked == IF WantsDateProbe(args)
                     THEN Append(sent, ProbeRequest(args)) ELSE sent
        IN  IF Raises(probe)
            THEN /\ sent' = asked
                 /\ r' = probe
                 /\ pc' = "error"
                 /\ err' = probe.kind
                 /\ UNCHANGED <<request, total, done, signalled, add_offset,
                                max_id, min_id, last_id>>
            ELSE IF InitialLeft(args.limit) <= 0
            THEN \E reply \in Replies(req) :
                   /\ sent' = Append(asked, req)
                   /\ r' = reply
                   /\ request' = req
                   /\ IF Raises(reply)
                      THEN /\ pc' = "error"
                           /\ err' = reply.kind
                           /\ UNCHANGED <<total, done, signalled>>
                      ELSE /\ total' = CountOf(reply)
                           /\ done' = TRUE
                           /\ signalled' = TRUE
                           /\ pc' = "ready"
                           /\ UNCHANGED err
                   /\ UNCHANGED <<add_offset, max_id, min_id, last_id>>
            ELSE IF args.reverse /\ ~HasAddOffset(req.tag)
            THEN /\ sent' = asked
                 /\ r' = probe
                 /\ request' = req
                 /\ pc' = "error"
                 /\ err' = "AttributeError"
                 /\ UNCHANGED <<total, done, signalled, add_offset, max_id,
                                min_id, last_id>>
            ELSE /\ sent' = asked
                 /\ r' = probe
                 /\ request' = Biased(req, args.reverse)
                 /\ add_offset' = args.add_offset
                 /\ max_id' = InitMaxId(args)
                 /\ min_id' = args.min_id
                 /\ last_id' = IF args.reverse THEN 0 ELSE Inf
                 /\ pc' = "ready"
                 /\ UNCHANGED <<err, total, done, signalled>>
    /\ UNCHANGED <<kind, args, server, left, buffer, idsVars, produced>>

\* next() fetches a chunk: _MessagesIter._load_next_chunk
MsgLoad ==
    /\ kind = "msg"
    /\ CanLoad
    /\ LET req == ChunkRequest(request, args.reverse, left, add_offset)
       IN  \E reply \in Replies(req) :
             LET c == Chunk(Self, req, last_id, reply)
             IN  /\ sent' = Append(sent, req)
                 /\ r' = reply
                 /\ IF Raises(reply)
                    THEN /\ pc' = "error"
                         /\ err' = reply.kind
                         /\ request' = req
                         /\ UNCHANGED <<total, last_id, left, buffer, done,
                                        signalled, produced>>
                    ELSE /\ total' = CountOf(reply)
                         /\ last_id' = c.last_id
                         /\ request' = c.request
                         /\ AfterLoad(c.items, c.last)
                         /\ UNCHANGED <<pc, err>>
    /\ UNCHANGED <<kind, args, server, entity, from_id, add_offset,
                   max_id, min_id, idsVars>>

NextMsg ==
    MsgInitRejected \/ MsgInitEmpty \/ MsgInit \/ MsgLoad \/ NextPop \/ NextExhausted

\* range traversals against an arbitrary transport
InitRange ==
    /\ kind = "msg"
    /\ server = "any"
    /\ \E e \in {"None", "CHAT"}, reverse \in BOOLEAN, limit \in 0..MaxLimit,
          offset \in {0, MaxMsgId}, lo \in 0..MaxMsgId, hi \in 0..MaxMsgId :
         /\ args = [DefaultArgs EXCEPT !.entity = e, !.reverse = reverse,
                        !.limit = limit, !.offset_id = offset,
                        !.min_id = lo, !.max_id = hi]
         /\ left = InitialLeft(limit)
    /\ Constructed

SpecRange == InitRange /\ [][NextMsg]_vars

\* constructions over every combination of the arguments that choose the
\* request, against a terse transport
InitSelect ==
    /\ kind = "msg"
    /\ server = "terse"
    /\ \E e \in EntityTypes, sender \in {None, 1}, scheduled \in BOOLEAN,
          reply_to \in {None, 5}, search \in {"None", "", "q"},
          filter \in {"None", "Empty", "Photos"}, reverse \in BOOLEAN,
          date \in {None, 50}, limit \in {-1, 0, 1},
          window \in {<<0, 0>>, <<100, 101>>, <<100, 102>>} :
         /\ args = [DefaultArgs EXCEPT !.entity = e, !.from_user = sender,
                        !.scheduled = scheduled, !.reply_to = reply_to,
                        !.search = search, !.filter = filter,
                        !.reverse = reverse, !.offset_date = date,
                        !.limit = limit, !.min_id = window[1],
                        !.max_id = window[2]]
         /\ left = InitialLeft(limit)
    /\ Constructed

SpecSelect == InitSelect /\ [][NextMsg]_vars

\* traversals of a private chat, or of every chat, by sender or not, against
\* the transport that mixes senders and placeholders
InitDrop ==
    /\ kind = "msg"
    /\ server = "mixed"
    /\ \E e \in {"None", "USER"}, sender \in {None, 1}, reverse \in BOOLEAN,
          limit \in 1..MaxLimit, lo \in {0, 1}, hi \in {0, 2, MaxMsgId} :
         /\ args = [DefaultArgs EXCEPT !.entity = e, !.from_user = sender,
                        !.reverse = reverse, !.limit = limit,
                        !.min_id = lo, !.max_id = hi]
         /\ left = InitialLeft(limit)
    /\ Constructed

SpecDrop == InitDrop /\ [][NextMsg]_vars

\* traversals with a finite positive limit, with no bounds or between the
\* adjacent bounds 1 and 2, against the same transport, by a caller that keeps
\* calling next()
InitLimited ==
    /\ kind = "msg"
    /\ server = "mixed"
    /\ \E e \in {"None", "USER"}, sender \in {None, 1}, reverse \in BOOLEAN,
          limit \in 1..MaxLimit, window \in {<<0, 0>>, <<1, 2>>} :
         /\ args = [DefaultArgs EXCEPT !.entity = e, !.from_user = sender,
                        !.reverse = reverse, !.limit = limit,
                        !.min_id = window[1], !.max_id = window[2]]
         /\ left = InitialLeft(limit)
    /\ Constructed

FairLimited == InitLimited /\ [][NextMsg]_vars /\ WF_vars(NextMsg)

\* traversals of a fixed history against an honest transport: unbounded ones
\* of every history, bounded ones of the short histories, and the traversals
\* by three of the history of 50 messages, from its end or after message 47;
\* the short, the 50-message and the longest histories also with an add_offset;
\* the longest also between bounds, with its newest 100 messages of another
\* sender, and as a private chat read by sender
InitHonest ==
    /\ kind = "msg"
    /\ server = "honest"
    /\ \E n \in 0..MaxHistory, reverse \in BOOLEAN, counted \in BOOLEAN :
         \E limit \in IF n <= MaxMsgId THEN {None} \cup (1..MaxLimit)
                      ELSE IF n = 50 THEN {None, 3} ELSE {None},
            offset \in IF n <= MaxMsgId THEN 0..MaxMsgId
                       ELSE IF n = 50 THEN {0, 47} ELSE {0},
            skip \in IF n <= MaxMsgId \/ n = 50 \/ n = MaxHistory
                     THEN {-1, 0, 2} ELSE {0},
            lo \in IF n <= MaxMsgId THEN 0..MaxMsgId
                   ELSE IF n = MaxHistory THEN {0, 50} ELSE {0},
            hi \in IF n <= MaxMsgId THEN 0..MaxMsgId
                   ELSE IF n = MaxHistory THEN {0, 180} ELSE {0},
            e \in IF n <= MaxMsgId THEN {"None", "CHAT"} ELSE {"CHAT"},
            from \in IF n = MaxHistory THEN {None, 1} ELSE {None},
            others \in IF n = MaxHistory THEN {0, _MAX_CHUNK_SIZE} ELSE {0} :
           /\ args = [entity |-> IF from = None THEN e ELSE "USER",
                      limit |-> limit, offset_date |-> None,
                      offset_id |-> offset, max_id |-> hi, min_id |-> lo,
                      add_offset |-> skip, search |-> "None", filter |-> "None",
                      from_user |-> from, reverse |-> reverse, reply_to |-> None,
                      scheduled |-> FALSE, history |-> n,
                      counted |-> counted, others |-> others]
           /\ left = InitialLeft(limit)
    /\ Constructed

SpecHonest == InitHonest /\ [][NextMsg]_vars

\* ------------------------------------------------------------------------
\* Claims about the ID lookup iterator (checked under SpecIds)
\* ------------------------------------------------------------------------
\* C1: once Exhausted is signalled, the iterator has produced exactly one slot
\* per requested identifier, and slot i is the absent marker or the item whose
\* identifier is the i-th requested one (in traversal order).
C1_OneSlotPerIdentifier ==
    (kind = "ids" /\ pc = "ready" /\ signalled) =>
        /\ Len(produced) = Len(args.ids)
        /\ \A i \in 1..Len(produced) :
             produced[i] = Absent \/ produced[i].id = _ids[i]

\* C10 as stated: a rejection of a batch lookup with the 'all identifiers
\* invalid' error never reaches the caller, whatever the peer category.
C10_RejectionNeverSurfaces ==
    (kind = "ids" /\ r.kind = "MessageIdsEmptyError") => (pc = "ready" /\ err = "")

\* C10 as amended: when the channel-scoped lookup of a batch is rejected with
\* the 'all identifiers invalid' error, no error reaches the caller, the batch
\* yields one absent marker per requested identifier, and the iterator stays
\* ready, not terminal, with its offset on the next batch.
C10_ChannelRejectionIsAllAbsent ==
    [][(kind = "ids" /\ _ty = "CHANNEL" /\ sent' # sent
            /\ r'.kind = "MessageIdsEmptyError")
        => LET ids == IdsBatch(_ids, _offset)
           IN  /\ pc' = "ready" /\ err' = ""
               /\ produced' \o buffer' = produced \o [i \in 1..Len(ids) |-> Absent]
               /\ left' = left - Len(ids)
               /\ ~done'
               /\ _offset' = _offset + _MAX_CHUNK_SIZE]_vars

\* a channel lookup of more than one batch whose batches were all rejected
\* and whose absent markers were all delivered
C10_Witness ==
    /\ kind = "ids" /\ _ty = "CHANNEL"
    /\ Len(sent) = 2
    /\ r.kind = "MessageIdsEmptyError"
    /\ Len(produced) = Len(args.ids)
    /\ \A i \in 1..Len(produced) : produced[i] = Absent

\* ------------------------------------------------------------------------
\* Claims about the message range iterator
\* ------------------------------------------------------------------------
\* the identifiers of a sequence of items
IdsOf(items) == [i \in 1..Len(items) |-> items[i].id]

\* strictly decreasing forward, strictly increasing in reverse
Monotone(items, reverse) ==
    \A i \in 1..(Len(items) - 1) :
        IF reverse THEN items[i].id < items[i + 1].id
        ELSE items[i].id > items[i + 1].id

\* C2: an iterator with a finite limit never delivers more items than it
\* (checked under SpecRange, whose transport also returns more records than
\* the request asked for).
C2_NeverMoreThanLimit ==
    (kind = "msg" /\ args.limit # None) =>
        Len(produced) <= InitialLeft(args.limit)

\* C3 as stated: the identifiers of the produced items are strictly decreasing
\* forward and strictly increasing in reverse, whichever request was chosen.
C3_StrictlyMonotone ==
    kind = "msg" => Monotone(produced, args.reverse)

\* C3 as amended: when the iterator has a peer (every request but the global
\* search), the accepted items, delivered or still buffered, are strictly
\* decreasing forward and strictly increasing in reverse, and last_id is the
\* identifier of the latest of them.
C3_StrictlyMonotoneWithPeer ==
    (kind = "msg" /\ pc = "ready" /\ InitEntity(args) # "None") =>
        LET accepted == produced \o buffer
        IN  /\ Monotone(accepted, args.reverse)
            /\ accepted # <<>> => last_id = accepted[Len(accepted)].id

\* a reverse traversal in its second chunk, to which the transport sent again
\* a message that was already produced
C3_Witness ==
    /\ kind = "msg" /\ pc = "ready" /\ InitEntity(args) # "None"
    /\ args.reverse
    /\ Len(sent) = 2
    /\ produced # <<>>
    /\ r.kind = "Messages"
    /\ \E i \in 1..Len(r.messages) :
         ~r.messages[i].empty /\ r.messages[i].id = produced[1].id

\* C4: no produced item has an identifier equal to a given min_id or max_id,
\* or outside the open interval between them (stated for the iterators with a
\* peer and checked under SpecHonest, where the transport is honest).
C4_BoundsExclusive ==
    (kind = "msg" /\ args.entity # "None") =>
        \A i \in 1..Len(produced) :
            /\ args.min_id # 0 => produced[i].id > args.min_id
            /\ args.max_id # 0 => produced[i].id < args.max_id

\* C5: left is never negative, and a chunk fetch lowers it by exactly the
\* number of items the fetch appended to the buffer.
C5_LeftFollowsAppended ==
    [][/\ left' >= 0
       /\ sent' # sent /\ pc = "ready" =>
            left' = Minus(left, Len(buffer') + Len(produced') - Len(produced))]_vars

\* C6 as stated: every construction with limit <= 0 produces nothing, sends
\* exactly one request, and total is the count that request's answer reports.
C6_OneProbe ==
    (kind = "msg" /\ pc # "new" /\ args.limit # None /\ args.limit <= 0) =>
        /\ produced = <<>>
        /\ Len(sent) = 1
        /\ total = r.count

\* C6 as amended: a construction with limit <= 0 that is not rejected and
\* whose window is not empty produces nothing and sends exactly one request of
\* the chosen variant, after the one-item history request of the date
\* workaround where that applies; total is the count its answer reports, or
\* the number of records of the answer when it reports none.
C6_OneProbeWhenBuilt ==
    (kind = "msg" /\ pc # "new" /\ args.limit # None /\ args.limit <= 0
        /\ ~RejectsReverse(args) /\ ~NothingToFetch(args)) =>
        /\ pc = "ready" /\ done
        /\ produced = <<>> /\ buffer = <<>>
        /\ Len(sent) = (IF WantsDateProbe(args) THEN 2 ELSE 1)
        /\ sent[Len(sent)].tag = request.tag
        /\ Len(sent) = 2 => (sent[1].tag = "GetHistory" /\ sent[1].limit = 1)
        /\ total = (IF r.count # None THEN r.count ELSE Len(r.messages))

\* a construction with limit 0 whose single request was answered with a count
C6_Witness ==
    /\ kind = "msg" /\ pc = "ready" /\ args.limit = 0
    /\ Len(sent) = 1
    /\ r.count = 7 /\ r.messages # <<>>
    /\ total = 7
    /\ signalled

\* C7: against an honest transport and a fixed history 1..n, an unbounded
\* forward traversal produces n, ..., 1 and an unbounded reverse traversal
\* 1, ..., n: the same identifiers in opposite order.
Unbounded(a) ==
    /\ a.limit = None /\ a.offset_id = 0 /\ a.min_id = 0 /\ a.max_id = 0
    /\ a.add_offset = 0 /\ a.from_user = None
    /\ a.entity # "None"
C7_RoundTrip ==
    (kind = "msg" /\ server = "honest" /\ Unbounded(args) /\ signalled) =>
        IdsOf(produced) = (IF args.reverse THEN Iota(args.history)
                           ELSE Reversed(Iota(args.history)))

\* an exhausted reverse traversal of a history of more than one chunk that is
\* no multiple of the chunk size
C7_Witness ==
    /\ kind = "msg" /\ server = "honest" /\ Unbounded(args) /\ signalled
    /\ args.reverse
    /\ args.history > _MAX_CHUNK_SIZE
    /\ args.history % _MAX_CHUNK_SIZE # 0
    /\ Len(produced) = args.history

\* the forward construction of scenario C8, with max_id as given
ForwardWindow(lo, hi) ==
    /\ kind = "msg" /\ pc # "new"
    /\ ~args.reverse /\ args.entity # "None"
    /\ args.min_id = lo /\ args.max_id = hi /\ args.offset_id = 0
    /\ args.limit = 1

\* C8 as stated: forward with min_id=100 and max_id=102 is empty at once,
\* without a request.
C8_Empty100To102 ==
    ForwardWindow(100, 102) => (sent = <<>> /\ produced = <<>>)

\* C8 as amended: forward with min_id=100 and max_id=101 is empty at once,
\* without a request.
C8_Empty100To101 ==
    ForwardWindow(100, 101) =>
        (pc = "ready" /\ done /\ signalled /\ sent = <<>> /\ produced = <<>>
            /\ buffer = <<>>)

C8_Witness ==
    ForwardWindow(100, 101) /\ signalled /\ args.filter = "None"

\* C9: the request an iterator is built with is the one of the first matching
\* rule: no peer and no sender -> SearchGlobal; scheduled -> GetScheduledHistory;
\* reply_to -> GetReplies; a search text, a filter that is not the empty one,
\* or a sender -> Search; otherwise GetHistory.
C9_Precedence ==
    (kind = "msg" /\ request # NoRequest) =>
        request.tag =
            (IF args.entity = "None" /\ args.from_user = None THEN "SearchGlobal"
             ELSE IF args.scheduled THEN "GetScheduledHistory"
             ELSE IF args.reply_to # None THEN "GetReplies"
             ELSE IF \/ args.search # "None"
                     \/ args.filter \notin {"None", "Empty"}
                     \/ args.from_user # None
                  THEN "Search"
             ELSE "GetHistory")

\* a construction that matches rules 2, 3 and 4 at once
C9_Witness ==
    /\ kind = "msg" /\ pc = "ready"
    /\ args.scheduled /\ args.reply_to # None /\ args.search = "q"
    /\ request.tag = "GetScheduledHistory"

\* ------------------------------------------------------------------------
\* both iterators over a transport that may fail

InitAny == InitRange \/ InitIds

NextAny ==
    \/ MsgInitRejected \/ MsgInitEmpty \/ MsgInit \/ MsgLoad
    \/ IDsInit \/ IDsLoad \/ IDsLoadNone
    \/ NextPop \/ NextExhausted

SpecAny == InitAny /\ [][NextAny]_vars

\* a chunk fetch just failed with an error the iterator does not swallow
FetchFailed ==
    /\ pc = "ready"
    /\ Len(sent') = Len(sent) + 1
    /\ r'.kind \notin {"Messages", "None"}
    /\ ~(kind = "ids" /\ _ty = "CHANNEL" /\ r'.kind = "MessageIdsEmptyError")

\* C11: a chunk fetch that the transport fails with a service error (other
\* than the swallowed empty-identifiers rejection of a channel) hands that
\* very error to the caller, appends no item, issues no second request, and
\* leaves the iterator unable to issue any further request
C11_FailureIsFatal ==
    /\ [][FetchFailed =>
            /\ pc' = "error" /\ err' = r'.kind
            /\ buffer' = buffer /\ produced' = produced /\ left' = left
            /\ signalled' = signalled]_vars
    /\ [](pc = "error" => ~ENABLED (MsgInit \/ MsgLoad \/ IDsInit \/ IDsLoad))

C11_Witness ==
    /\ pc = "error" /\ err = "RPCError" /\ r = Failure
    /\ kind = "ids" /\ _ty = "CHANNEL"
    /\ Len(sent) = 2 /\ Len(produced) = _MAX_CHUNK_SIZE

C11_WitnessMessages ==
    /\ pc = "error" /\ err = "RPCError" /\ r = Failure
    /\ kind = "msg" /\ Len(sent) = 2 /\ produced # <<>>

\* the iterator was built to fetch, and the caller has been told it is over
Exhausted ==
    /\ kind = "msg" /\ pc = "ready" /\ signalled /\ buffer = <<>>
    /\ InitialLeft(args.limit) > 0
    /\ sent # <<>>

\* C12: once a Message Range Iterator is exhausted, total is the count of the
\* last response when it carried one, and otherwise the number of items
\* produced over all the chunks; stated of the traversals with no bound and no
\* offset, where every record returned is produced
C12_TotalWhenExhausted ==
    Exhausted /\ Unbounded(args) =>
        total = (IF r.count # None THEN r.count ELSE Len(produced))

\* what the code does: total is the count of the last response, and the number
\* of records of that response when it carried no count
C12_TotalOfLastResponse ==
    Exhausted =>
        total = (IF r.count # None THEN r.count ELSE Len(r.messages))

\* a step of a built Message Range Iterator that is not yet exhausted
Fetching == kind = "msg" /\ pc = "ready" /\ request # NoRequest

\* the request keeps its value of every attribute of `fields`
Keeps(fields) == \A f \in fields : request'[f] = request[f]

\* C13: from construction to exhaustion the tag of the request never changes,
\* and only its offset_id, offset_date, max_date, offset_peer and offset_rate
\* are modified: peer, query, filter, sender, limit, add_offset, min_id and
\* max_id keep their values
C13_OnlyOffsetsChange ==
    [][Fetching =>
         Keeps({"tag", "peer", "q", "filter", "from_id", "msg_id", "limit",
                "add_offset", "min_id", "max_id"})]_vars

\* C13, amended: the tag, peer, query, filter, sender, thread, min_id and
\* max_id of the request never change; a fetch sets limit to min(left, 100),
\* and sets add_offset only in reverse, to the add_offset given less that limit;
\* max_date changes only for Search, which clears it, offset_date only for the
\* other variants, offset_peer and offset_rate only for SearchGlobal
C13_FrameOfTheRequest ==
    [][Fetching =>
         /\ Keeps({"tag", "peer", "q", "filter", "from_id", "msg_id",
                   "min_id", "max_id"})
         /\ sent' = sent => request' = request
         /\ sent' # sent => request'.limit = Min(left, _MAX_CHUNK_SIZE)
         /\ \/ request'.add_offset = request.add_offset
            \/ /\ args.reverse
               /\ request'.add_offset = args.add_offset - request'.limit
         /\ \/ request'.max_date = request.max_date
            \/ request.tag = "Search" /\ request'.max_date = None
         /\ request.tag = "Search" => request'.offset_date = request.offset_date
         /\ request.tag # "SearchGlobal" => Keeps({"offset_peer", "offset_rate"})
      ]_vars

\* a search by text before a date has fetched a full chunk: the limit went
\* from 0 to 1, max_date was cleared and offset_id moved to the last message
C13_Witness ==
    /\ kind = "msg" /\ pc = "ready"
    /\ request.tag = "Search" /\ args.offset_date # None
    /\ Len(sent) = 1
    /\ sent[1].max_date = args.offset_date /\ sent[1].limit = 1
    /\ BuildRequest(args).limit = 0
    /\ request.max_date = None /\ request.offset_id = 101

\* a search by filter alone before a date, with no offset identifier given
DatedFilterSearch(a) ==
    /\ Variant(a) = "Search"
    /\ a.filter \notin {"None", "Empty"}
    /\ a.offset_date # None
    /\ a.search \in {"None", ""}
    /\ a.offset_id = 0

\* the one-item history request anchored at the date
DateProbe(a) ==
    [BlankRequest EXCEPT !.tag = "GetHistory",
         !.peer = IF a.entity = "None" THEN "Empty" ELSE a.entity,
         !.limit = 1, !.offset_date = a.offset_date, !.offset_id = 0,
         !.add_offset = 0, !.max_id = 0, !.min_id = 0]

\* C14: a search by filter alone before a date, with no offset identifier,
\* sends a one-item history request anchored at the date before its first
\* search request, and the identifier of the message that request returns
\* becomes the offset_id of the search; no other construction sends one
C14_ProbeSubstitutesId ==
    (kind = "msg" /\ pc = "ready") =>
        IF DatedFilterSearch(args)
        THEN /\ sent # <<>> => sent[1] = DateProbe(args)
             /\ (Len(sent) = 1 /\ r.messages # <<>>) =>
                    request.offset_id \in {r.messages[i].id : i \in 1..Len(r.messages)}
        ELSE \A i \in 1..Len(sent) : sent[i].tag = Variant(args)

\* C14, amended: the one-item history request is sent when, moreover, no max_id
\* (forward) or min_id (reverse) is given, and the offset_id of the search is
\* the identifier of the last message it yields plus one, or stays 0 when it
\* yields none; it leaves the rest of the iterator as construction without it
\* does, and every request after it is the search
C14_ProbeBeforeSearch ==
    /\ [](kind = "msg" /\ pc = "ready" =>
          IF /\ DatedFilterSearch(args)
             /\ (IF args.reverse THEN args.min_id ELSE args.max_id) = 0
          THEN /\ sent # <<>> /\ sent[1] = DateProbe(args)
               /\ \A i \in 2..Len(sent) :
                    /\ sent[i].tag = "Search"
                    /\ sent[i].offset_id \in {0} \cup
                         {reply.messages[Len(reply.messages)].id + 1 :
                            reply \in {t \in TerseReplies : t.messages # <<>>}}
               /\ Len(sent) = 1 =>
                    /\ request.offset_id =
                         (IF r.messages = <<>> THEN 0
                          ELSE r.messages[Len(r.messages)].id + 1)
                    /\ request.tag = "Search" /\ request.limit = 0
                    /\ request.max_date = args.offset_date
                    /\ total = None /\ ~done
                    /\ left = (IF args.limit = None THEN Inf ELSE args.limit)
                    /\ buffer = <<>> /\ produced = <<>>
                    /\ last_id = (IF args.reverse THEN 0 ELSE Inf)
          ELSE \A i \in 1..Len(sent) : sent[i].tag = Variant(args))
    /\ [][(kind = "msg" /\ pc = "ready" /\ Len(sent) = 1 /\ Len(sent') = 2) =>
            sent'[2].offset_id = request.offset_id]_vars

\* the search was sent after the history request returned message 101
C14_Witness ==
    /\ kind = "msg" /\ pc = "ready"
    /\ DatedFilterSearch(args)
    /\ Len(sent) = 2
    /\ sent[1] = DateProbe(args)
    /\ sent[2].tag = "Search" /\ sent[2].offset_id = 102 /\ sent[2].limit = 1

\* C15: construction fails with the configuration error, before any request
\* is sent, exactly when reverse is asked of a global search (no peer and no
\* sender); reverse with no peer but with a sender is not rejected
C15_OnlyGlobalSearchRejected ==
    (kind = "msg" /\ pc # "new") =>
        /\ err = "ValueError" <=>
             (args.reverse /\ args.entity = "None" /\ args.from_user = None)
        /\ err = "ValueError" => sent = <<>>

\* what the code does: reverse with no peer is rejected, whatever the sender
C15_EveryPeerlessReverseRejected ==
    (kind = "msg" /\ pc # "new") =>
        /\ err = "ValueError" <=> (args.reverse /\ args.entity = "None")
        /\ err = "ValueError" => sent = <<>>

\* a Message Range Iterator with a peer and no bounds fetches a chunk that
\* returns the messages 50, 49, 48 in that order
Returns50To48 ==
    /\ kind = "msg" /\ pc = "ready" /\ entity # "None"
    /\ min_id = 0 /\ max_id \in {0, Inf}
    /\ Len(sent') = Len(sent) + 1
    /\ r'.kind = "Messages" /\ IdsOf(r'.messages) = <<50, 49, 48>>

\* the items the step appended, delivered or still buffered
Appended == SubSeq(produced', Len(produced) + 1, Len(produced')) \o buffer'

\* C16: a chunk [50, 49, 48] returned to an iterator with a peer, last_id 0 and
\* no bounds is accepted whole, and last_id becomes 48
C16_AllAcceptedLast48 ==
    [][(Returns50To48 /\ last_id = 0) =>
         (Len(Appended) = 3 /\ last_id' = 48)]_vars

\* C16, amended: the first chunk [50, 49, 48] is accepted whole in both
\* directions; forward, where last_id starts unset, the items are appended as
\* 50, 49, 48 and last_id becomes 48; in reverse, where last_id starts at 0,
\* they are appended as 48, 49, 50 and last_id becomes 50
C16_AllAcceptedInOrder ==
    [][(Returns50To48 /\ last_id = (IF args.reverse THEN 0 ELSE Inf)) =>
         /\ IdsOf(Appended) =
              (IF args.reverse THEN <<48, 49, 50>> ELSE <<50, 49, 48>>)
         /\ last_id' = (IF args.reverse THEN 50 ELSE 48)]_vars

C16_Witness ==
    /\ kind = "msg" /\ pc = "ready" /\ entity # "None" /\ ~args.reverse
    /\ Len(sent) = 1 /\ r.kind = "Messages"
    /\ IdsOf(r.messages) = <<50, 49, 48>>
    /\ last_id = 48 /\ IdsOf(produced \o buffer) = <<50, 49, 48>>

C16_WitnessReverse ==
    /\ kind = "msg" /\ pc = "ready" /\ entity # "None" /\ args.reverse
    /\ Len(sent) = 1 /\ r.kind = "Messages"
    /\ IdsOf(r.messages) = <<50, 49, 48>>
    /\ last_id = 50 /\ IdsOf(produced \o buffer) = <<48, 49, 50>>

\* a chunk fetch of a Message Range Iterator that the transport answers
ChunkFetched ==
    /\ kind = "msg" /\ pc = "ready"
    /\ Len(sent') = Len(sent) + 1
    /\ r'.kind = "Messages"

\* the answer has fewer records than asked for
Short == Len(r'.messages) < sent'[Len(sent')].limit

\* a record of the answer that is neither a placeholder nor of another sender
\* fails the range check
Crossed ==
    Scan(Self, IF args.reverse THEN Reversed(r'.messages) ELSE r'.messages,
         last_id).crossed

\* the record is dropped before the range check
Dropped(message) ==
    message.empty \/ (from_id # None /\ message.sender # from_id)

\* C17: a chunk fetch makes the iterator terminal if and only if the answer is
\* short, or one of its records fails the range check, or every record of it
\* is a placeholder; a full chunk with a message and no failed range check is
\* never the last
C17_TerminalIff ==
    [][ChunkFetched =>
         (done' <=> \/ Short
                    \/ Crossed
                    \/ \A i \in 1..Len(r'.messages) : r'.messages[i].empty)]_vars

\* what the code does: the chunk is the last if and only if the answer is
\* short, a record fails the range check, or no record of it is appended
C17_TerminalIffNothingAppended ==
    [][ChunkFetched =>
         (done' <=> \/ Short
                    \/ Crossed
                    \/ \A i \in 1..Len(r'.messages) : Dropped(r'.messages[i]))]_vars

\* the request points past the last item the fetch appended
OffsetFollows(item) ==
    /\ request'.offset_id = (IF args.reverse THEN item.id + 1 ELSE item.id)
    /\ IF request.tag = "Search"
       THEN request'.max_date = None
       ELSE request'.offset_date = item.date

\* C18: after every chunk fetch that accepted an item, the offset_id of the
\* request is the identifier of the last accepted item, plus one in reverse,
\* and its offset_date that item's date, but for Search, whose max_date is
\* cleared
C18_OffsetAfterAccepting ==
    [][(ChunkFetched /\ Appended # <<>>) =>
         OffsetFollows(Appended[Len(Appended)])]_vars

\* C18, amended: that holds after every chunk fetch that is not the last; a
\* fetch that is the last (short answer, failed range check, or nothing
\* appended) leaves the request as it was sent
C18_OffsetAfterFullChunk ==
    [][ChunkFetched =>
         IF done'
         THEN request' = sent'[Len(sent')]
         ELSE /\ Appended # <<>>
              /\ OffsetFollows(Appended[Len(Appended)])]_vars

\* a reverse search before a date fetched a full chunk: offset_id is one past
\* the message and max_date is cleared
C18_Witness ==
    /\ kind = "msg" /\ pc = "ready" /\ ~done /\ args.reverse
    /\ request.tag = "Search" /\ args.offset_date # None
    /\ Len(sent) = 1 /\ sent[1].max_date = args.offset_date
    /\ IdsOf(produced \o buffer) = <<101>>
    /\ request.offset_id = 102 /\ request.max_date = None

\* a forward history fetch of a full chunk: offset_id and offset_date are
\* those of the last message
C18_WitnessHistory ==
    /\ kind = "msg" /\ pc = "ready" /\ ~done /\ ~args.reverse
    /\ request.tag = "GetHistory"
    /\ Len(sent) = 1
    /\ IdsOf(produced \o buffer) = <<101>>
    /\ request.offset_id = 101 /\ request.offset_date = 101

\* the request the fetch has just sent
Asked == sent'[Len(sent')]

\* C19: in reverse, every chunk request of the full size carries the
\* add_offset given less 100, and a request of a smaller size, the final one,
\* carries the add_offset given
C19_SkipRestoredOnFinalChunk ==
    [][(ChunkFetched /\ args.reverse) =>
         Asked.add_offset =
            (IF Asked.limit = _MAX_CHUNK_SIZE
             THEN args.add_offset - _MAX_CHUNK_SIZE
             ELSE args.add_offset)]_vars

\* C19, amended: in reverse, every chunk request asks for min(left, 100)
\* messages and carries the add_offset given less the number it asks for
C19_SkipLessWindow ==
    [][(ChunkFetched /\ args.reverse) =>
         /\ Asked.limit = Min(left, _MAX_CHUNK_SIZE)
         /\ Asked.add_offset = args.add_offset - Asked.limit]_vars

\* a reverse traversal with an add_offset of -1 has asked for a full chunk
\* and then another
C19_Witness ==
    /\ kind = "msg" /\ pc = "ready" /\ args.reverse /\ args.add_offset = -1
    /\ Len(sent) = 2
    /\ sent[1].limit = _MAX_CHUNK_SIZE
    /\ sent[1].add_offset = -1 - _MAX_CHUNK_SIZE
    /\ sent[2].add_offset = -1 - _MAX_CHUNK_SIZE

\* a reverse traversal of at most three messages with an add_offset of 2 has
\* asked for its only chunk
C19_WitnessShort ==
    /\ kind = "msg" /\ pc = "ready" /\ args.reverse /\ args.add_offset = 2
    /\ args.limit = 3
    /\ Len(sent) = 1
    /\ sent[1].limit = 3 /\ sent[1].add_offset = -1

\* the records of the answer, in the order the loop reads them, that are
\* neither placeholders nor of another sender than the one checked locally
Undropped ==
    LET Real(message) == ~Dropped(message)
    IN  SelectSeq(IF args.reverse THEN Reversed(r'.messages) ELSE r'.messages,
                  Real)

\* the loop over the chunk behaves as on the undropped records alone: it
\* appends them in order up to the first that fails the range check, and
\* last_id is the identifier of the last one appended
AsIfUndroppedAlone ==
    /\ \A i \in 1..Len(Appended) : ~Dropped(Appended[i])
    /\ Len(Appended) <= Len(Undropped)
    /\ Appended = SubSeq(Undropped, 1, Len(Appended))
    /\ last_id' = (IF Appended = <<>> THEN last_id
                   ELSE Appended[Len(Appended)].id)
    /\ Len(Appended) < Len(Undropped) =>
         ~MessageInRange(Self, Undropped[Len(Appended) + 1], last_id')

C20_WitnessSender ==
    /\ kind = "msg" /\ pc = "ready" /\ entity = "USER" /\ ~args.reverse
    /\ from_id = 1 /\ Len(sent) = 1 /\ ~done
    /\ r.kind = "Messages" /\ Len(r.messages) = 2
    /\ r.messages[1].id = 1 /\ r.messages[1].sender = 2
    /\ IdsOf(produced \o buffer) = <<2>> /\ last_id = 2

\* the slot holds no message of another conversation
OwnOrAbsent(slot) == slot = Absent \/ slot.peer = "own"

\* C21: with a target peer of any category, no slot the ID Lookup Iterator
\* produces holds a message of another conversation: a returned message of
\* another peer becomes an absent marker
C21_NoForeignSlot ==
    (kind = "ids" /\ args.entity # "None") =>
        \A i \in 1..Len(produced) : OwnOrAbsent(produced[i])

\* C21, amended: that holds for a user and for a chat, whose lookup is not
\* scoped and whose answer is checked record by record; for a channel, and with
\* no peer, every returned message that is no placeholder fills its slot
\* unchecked
C21_ForeignAbsentUnlessChannel ==
    [][(kind = "ids" /\ pc = "ready" /\ Len(sent') = Len(sent) + 1
          /\ r'.kind = "Messages") =>
         /\ Len(Appended) = Len(r'.messages)
         /\ \A i \in 1..Len(Appended) :
              Appended[i] =
                 (IF \/ r'.messages[i].empty
                     \/ /\ _ty \in {"USER", "CHAT"}
                        /\ r'.messages[i].peer # "own"
                  THEN Absent
                  ELSE r'.messages[i])
         /\ _ty \in {"USER", "CHAT"} =>
              \A i \in 1..Len(Appended) : OwnOrAbsent(Appended[i])]_vars

\* a lookup in a chat was answered with a message of another conversation
\* first, and its slot was produced as an absent marker
C21_Witness ==
    /\ kind = "ids" /\ pc = "ready" /\ _ty = "CHAT"
    /\ Len(sent) = 1 /\ r.kind = "Messages" /\ r.messages # <<>>
    /\ ~r.messages[1].empty /\ r.messages[1].peer = "other"
    /\ produced # <<>> /\ produced[1] = Absent

\* the offset identifier _init computes, and the bound on the other side
ComputedOffset(a) ==
    IF a.reverse THEN Max(a.offset_id, a.min_id) ELSE Max(a.offset_id, a.max_id)
OppositeBound(a) == IF a.reverse THEN a.max_id ELSE a.min_id

\* no identifier lies strictly between the computed offset and the bound
Collapsed(a) ==
    /\ OppositeBound(a) # 0
    /\ (IF a.reverse THEN OppositeBound(a) - ComputedOffset(a)
        ELSE ComputedOffset(a) - OppositeBound(a)) <= 1

\* C22: a Message Range Iterator, here one with a peer, whose computed offset
\* identifier and non-zero opposite bound are at most 1 apart is empty at
\* once: it sends no request and produces nothing
C22_CollapsedIsEmpty ==
    (kind = "msg" /\ pc # "new" /\ args.entity # "None" /\ Collapsed(args)) =>
        /\ sent = <<>> /\ produced = <<>>
        /\ pc = "ready" /\ signalled

\* C22, amended: that holds when the computed offset identifier is not 0 and
\* the construction is not rejected as a reverse global search; the iterator
\* then sends no request, not even that of a limit of 0, produces nothing and
\* signals the end without an error
C22_CollapsedFromAnOffsetIsEmpty ==
    (kind = "msg" /\ pc # "new" /\ ~(args.entity = "None" /\ args.reverse)
        /\ Collapsed(args) /\ ComputedOffset(args) # 0) =>
        /\ sent = <<>> /\ produced = <<>> /\ buffer = <<>>
        /\ pc = "ready" /\ err = "" /\ signalled
        /\ total = None

\* a construction with limit 0 between min_id 1 and max_id 2 has ended with
\* no request sent
C22_Witness ==
    /\ kind = "msg" /\ pc = "ready" /\ signalled
    /\ args.limit = 0 /\ args.min_id = 1 /\ args.max_id = 2 /\ args.offset_id = 0
    /\ sent = <<>> /\ produced = <<>>

\* the caller asks for message `id` of the history: it lies strictly inside
\* the bounds given and is of the sender asked for
Wanted(a, id) ==
    /\ a.min_id < id
    /\ a.max_id = 0 \/ id < a.max_id
    /\ a.from_user = None \/ SenderOf(id, a.history, a.others) = a.from_user

\* C23: an unbounded traversal of a peer's history, from no offset, against
\* the honest transport has delivered, by the time it signals its end, every
\* message strictly inside the bounds given whose sender is the one asked for
C23_Complete ==
    (/\ kind = "msg" /\ server = "honest" /\ pc = "ready" /\ signalled
     /\ args.entity # "None" /\ args.limit = None
     /\ args.offset_id = 0 /\ args.add_offset = 0) =>
        \A id \in 1..args.history :
            Wanted(args, id) => \E i \in 1..Len(produced) : produced[i].id = id

\* the same of the traversals that ask for no sender: what the code delivers
C23_CompleteWithoutSender ==
    (/\ kind = "msg" /\ server = "honest" /\ pc = "ready" /\ signalled
     /\ args.entity # "None" /\ args.limit = None /\ args.from_user = None
     /\ args.offset_id = 0 /\ args.add_offset = 0) =>
        \A id \in 1..args.history :
            Wanted(args, id) => \E i \in 1..Len(produced) : produced[i].id = id

\* a Message Range Iterator built with a finite positive limit
Limited == kind = "msg" /\ args.limit # None /\ args.limit > 0

\* C24: with a finite positive limit L and a caller that keeps calling next(),
\* whatever records the transport answers with, repeated or out of order,
\* every chunk fetch that does not make the iterator terminal appends at least
\* one item, at most L chunk requests are sent, and the end is signalled
\* eventually
C24_Terminates ==
    /\ [][(ChunkFetched /\ Limited /\ ~done') => Len(Appended) >= 1]_vars
    /\ [](Limited => Len(sent) <= args.limit)
    /\ (Limited /\ pc = "ready") ~> signalled

\* a traversal with limit 2 has sent its second chunk request and has
\* signalled its end
C24_Witness ==
    /\ Limited /\ args.limit = 2 /\ pc = "ready"
    /\ Len(sent) = 2 /\ signalled

====
